---------------------------- MODULE Spec2Model ----------------------------
(***************************************************************************)
(* The disk-resident committed content index cache                        *)
(* (diskCommittedContentIndexCache): a directory of files <id>.sndx,      *)
(* written through a temporary file and published by rename, read through *)
(* a retrying mmap open, and garbage-collected by expireUnused; and the    *)
(* construction of the block cache (newBlockCache), with the sweep that    *)
(* bounds the size of its directory.                                       *)
(*                                                                         *)
(* The directory is shared by several callers (threads or processes)      *)
(* which take no lock: every system call of a handler is one step here,   *)
(* so that the calls of different callers interleave as they can on a     *)
(* real file system.                                                       *)
(*                                                                         *)
(* Time is counted in ticks, TicksPerHour of them to the hour.             *)
(***************************************************************************)
EXTENDS Integers, Sequences, FiniteSets, TLC

\* ------------------------------------------------------------------ bounds
NumProcs == 2
MaxTmp == 2
MaxTime == 2
TicksPerHour == 1
MaxSize == 2
MaxCeiling == 3
MaxCalls == 2
MaxSweeps == 2

\* --------------------------------------------------------------- constants
simpleIndexSuffix == ".sndx"
unusedCommittedContentIndexCleanupTime == 1 * TicksPerHour
maxRetries == 8
\* in milliseconds
startingDelay == 10

Procs == 1..NumProcs
IDs == {"a", "b", "c"}
\* The ids the concurrent callers contend for.
RaceIDs == {"a"}
Payloads == {<<1, 1>>, <<2, 2>>}
TmpPool == <<"tmp1", "tmp2", "tmp3", "tmp4">>

\* A file name is its stem and its suffix; the directory part is c.dirname.
Names == {<<i, simpleIndexSuffix>> : i \in IDs} \cup {<<TmpPool[i], "">> : i \in 1..MaxTmp}
NoFile == [data |-> <<>>, mtime |-> -1]
NoArg == [op |-> "none", id |-> "a", data |-> <<>>, used |-> {}]
\* What a call returns is a message and what it is about: nil, a boolean, the
\* pack index, or an error and its cause.
None == <<"none", "">>
Nil == <<"nil", "">>
True == <<"true", "">>
False == <<"false", "">>
\* The locals of a handler's activation.
NoLoc == [tmpFile |-> <<>>, creates |-> 0, mkdirs |-> 0,
          entries |-> <<>>, remaining |-> <<>>, visited |-> {},
          errlog |-> 0, retryCount |-> 0, nextDelay |-> 0, slept |-> <<>>,
          opens |-> 0, err |-> "nil"]

VARIABLES
    dirExists,   \* whether the directory c.dirname exists
    files,       \* the directory: name -> [data, mtime], or NoFile
    now,         \* the value c.timeNow() returns
    pc,          \* each caller's position in the handler it runs
    arg,         \* the arguments of each caller's running call
    loc,         \* the locals of each caller's running call:
                 \*   tmpFile     tf.Name() of addContentToCache's temporary file
                 \*   creates     number of os.CreateTemp calls made
                 \*   mkdirs      number of os.MkdirAll calls made
                 \*   entries     expireUnused's listing: name -> ModTime
                 \*   remaining   expireUnused's map: id -> its entry [name, mtime]
                 \*   visited     the keys of remaining the last loop has been through
                 \*   errlog      number of c.log.Errorf calls of the run
                 \*   retryCount, nextDelay, err   those of mmapOpenWithRetry
                 \*   slept       the time.Sleep calls made, in order (ms)
                 \*   opens       number of mmap.Open calls made
    ret,         \* what the caller's last call returned ("none" while one runs)
    submitted    \* history: the payloads passed to addContentToCache, per id

\* The block cache (package block): newBlockCache and the cache it returns.
BlockIDs == {"x", "y", "z"}
\* The no-op variant holds the storage alone.
nullBlockCache(st) == [variant |-> "null", st |-> st]
\* c := &diskBlockCache{st: st, directory: ..., maxSizeBytes: ..., ...}
diskBlockCache(st, o) ==
    [variant |-> "disk", st |-> st, directory |-> o.CacheDirectory,
     maxSizeBytes |-> o.MaxCacheSizeBytes, closed |-> FALSE]
NoCache == [variant |-> "none"]
NoBlock == [size |-> 0, mtime |-> -1]
NoSweep == [at |-> "idle", by |-> "", listed |-> <<>>, items |-> <<>>, dirty |-> FALSE]
NoHist == [sweeps |-> 0, bgTasks |-> 0, calls |-> <<>>, st |-> <<>>]

VARIABLES
    caching,     \* the CachingOptions passed to newBlockCache
    bpc,         \* the position of newBlockCache: "new" before the call,
                 \*   "ctor_sweep", "ctor_spawn", "ctor_return" inside, "ready" after
    c,           \* the cache that newBlockCache builds and returns
    blockDir,    \* the files of the cache directory: name -> [size, mtime], or NoBlock
    sweep,       \* the running sweepDirectory:
                 \*   at       "idle", or "evict" once the directory has been listed
                 \*   by       "ctor" for the constructor's call, "bg" for the task's
                 \*   listed   the listing it has taken: name -> [size, mtime]
                 \*   items    the listed files it still retains
                 \*   dirty    whether a file has been written since the listing
    hist         \* history:
                 \*   sweeps   sweeps that have run to their end
                 \*   bgTasks  sweepDirectoryPeriodically goroutines started
                 \*   calls    the calls made on the returned cache, in order
                 \*   st       the calls made on the storage st, in order

blockVars == <<caching, bpc, c, blockDir, sweep, hist>>
indexVars == <<dirExists, files, pc, arg, loc, ret, submitted>>
vars == <<dirExists, files, now, pc, arg, loc, ret, submitted,
          caching, bpc, c, blockDir, sweep, hist>>

\* No block cache has been asked for.
BlockIdle ==
    /\ caching = [CacheDirectory |-> "", MaxCacheSizeBytes |-> 0]
    /\ bpc = "new"
    /\ c = NoCache
    /\ blockDir = [b \in BlockIDs |-> NoBlock]
    /\ sweep = NoSweep
    /\ hist = NoHist

\* ------------------------------------------------------------ file system
indexBlobPath(indexBlobID) == <<indexBlobID, simpleIndexSuffix>>
\* Any name taken to end with the suffix.
HasSuffix_Any(name, suffix) == TRUE

HasSuffix(name, suffix) == name[2] = suffix
\* The name less the suffix; a name that does not end with it (it then has no
\* suffix here) is returned as it is.
TrimSuffix(name, suffix) == IF name[2] = suffix \/ name[2] = "" THEN name[1] ELSE name

Exists(name) == dirExists /\ files[name] # NoFile

\* os.CreateTemp picks a name no file of the directory has; the first free
\* stem of the pool stands for it.
HasFreeTmp == \E i \in 1..MaxTmp : files[<<TmpPool[i], "">>] = NoFile
NewTmpName ==
    LET i == CHOOSE k \in 1..MaxTmp :
                 /\ files[<<TmpPool[k], "">>] = NoFile
                 /\ \A j \in 1..(k - 1) : files[<<TmpPool[j], "">>] # NoFile
    IN  <<TmpPool[i], "">>

Init ==
    /\ dirExists = FALSE
    /\ files = [n \in Names |-> NoFile]
    /\ now = 0
    /\ pc = [p \in Procs |-> "idle"]
    /\ arg = [p \in Procs |-> NoArg]
    /\ loc = [p \in Procs |-> NoLoc]
    /\ ret = [p \in Procs |-> None]
    /\ submitted = [i \in IDs |-> {}]
    /\ BlockIdle

\* A call begins with its arguments.
Call(p, a, at) ==
    /\ pc[p] = "idle"
    /\ pc' = [pc EXCEPT ![p] = at]
    /\ arg' = [arg EXCEPT ![p] = a]
    /\ ret' = [ret EXCEPT ![p] = None]
    /\ UNCHANGED <<loc, dirExists, files, now>>
    /\ UNCHANGED blockVars

\* A return leaves only its result: the locals of the activation are gone.
Return(p, v) ==
    /\ pc' = [pc EXCEPT ![p] = "idle"]
    /\ ret' = [ret EXCEPT ![p] = v]
    /\ arg' = [arg EXCEPT ![p] = NoArg]
    /\ loc' = [loc EXCEPT ![p] = NoLoc]
    /\ UNCHANGED blockVars

\* The handler goes on at `at` with the locals l.
Goto(p, at, l) ==
    /\ pc' = [pc EXCEPT ![p] = at]
    /\ loc' = [loc EXCEPT ![p] = l]
    /\ UNCHANGED <<ret, arg>>
    /\ UNCHANGED blockVars

\* The time source moves on.
Tick ==
    /\ now < MaxTime
    /\ now' = now + 1
    /\ UNCHANGED <<dirExists, files, pc, arg, loc, ret, submitted>>
    /\ UNCHANGED blockVars

\* ------------------------------------------------------- hasIndexBlobID
\* The path without its suffix: never there.
hasIndexBlobID_NoSuffix(indexBlobID) ==
    /\ dirExists
    /\ <<indexBlobID, "">> \in DOMAIN files
    /\ files[<<indexBlobID, "">>] # NoFile

\* os.Stat(c.indexBlobPath(id)) returns nil or a not-exist error.
hasIndexBlobID(indexBlobID) == Exists(indexBlobPath(indexBlobID))

HasCall(p, id) ==
    /\ Call(p, [NoArg EXCEPT !.op = "has", !.id = id], "has_stat")
    /\ UNCHANGED submitted

HasStat(p) ==
    /\ pc[p] = "has_stat"
    /\ Return(p, IF hasIndexBlobID(arg[p].id) THEN True ELSE False)
    /\ UNCHANGED <<dirExists, files, now, submitted>>

\* Any error of os.Stat taken for a not-exist error.
HasStatFail_AsNotFound(p) ==
    /\ pc[p] = "has_stat"
    /\ Return(p, False)
    /\ UNCHANGED <<dirExists, files, now, submitted>>

\* os.Stat fails with an error that is not a not-exist error.
HasStatFail(p) ==
    /\ pc[p] = "has_stat"
    /\ Return(p, <<"error checking", arg[p].id>>)
    /\ UNCHANGED <<dirExists, files, now, submitted>>

\* ---------------------------------------------------- addContentToCache
AddCall(p, id, data) ==
    /\ Call(p, [NoArg EXCEPT !.op = "add", !.id = id, !.data = data], "add_check")
    /\ submitted' = [submitted EXCEPT ![id] = @ \cup {data}]

\* The early return forgotten.
AddCheck_NoEarlyReturn(p) ==
    /\ pc[p] = "add_check"
    /\ Goto(p, "add_create", loc[p])
    /\ UNCHANGED <<dirExists, files, now, submitted>>

\* exists, err := c.hasIndexBlobID(...); if exists { return nil }
AddCheck(p) ==
    /\ pc[p] = "add_check"
    /\ IF hasIndexBlobID(arg[p].id)
          THEN Return(p, Nil)
          ELSE Goto(p, "add_create", loc[p])
    /\ UNCHANGED <<dirExists, files, now, submitted>>

AddCheckFail(p) ==
    /\ pc[p] = "add_check"
    /\ Return(p, <<"error checking", arg[p].id>>)
    /\ UNCHANGED <<dirExists, files, now, submitted>>

\* tf, err := os.CreateTemp(dirname, "tmp"): a not-exist error when the
\* directory is missing, else a new empty file.
CreateTemp(p) ==
    /\ pc[p] = "add_create"
    /\ IF dirExists
          THEN /\ HasFreeTmp
               /\ files' = [files EXCEPT ![NewTmpName] = [data |-> <<>>, mtime |-> now]]
               /\ Goto(p, "add_write", [loc[p] EXCEPT !.tmpFile = NewTmpName,
                                                      !.creates = @ + 1])
          ELSE /\ Goto(p, "add_mkdir", [loc[p] EXCEPT !.creates = @ + 1])
               /\ UNCHANGED files
    /\ UNCHANGED <<dirExists, now, submitted>>

\* os.CreateTemp fails with an error that is not a not-exist error.
CreateTempFail(p) ==
    /\ pc[p] = "add_create"
    /\ Return(p, <<"can't create tmp file", "EIO">>)
    /\ UNCHANGED <<dirExists, files, now, submitted>>

\* os.MkdirAll(dirname, cache.DirMode) creates the directory.
MkdirRetry(p) ==
    /\ pc[p] = "add_mkdir"
    /\ dirExists' = TRUE
    /\ Goto(p, "add_retry", [loc[p] EXCEPT !.mkdirs = @ + 1])
    /\ UNCHANGED <<files, now, submitted>>

\* os.MkdirAll fails; its error is dropped.
MkdirRetryFail(p) ==
    /\ pc[p] = "add_mkdir"
    /\ Goto(p, "add_retry", [loc[p] EXCEPT !.mkdirs = @ + 1])
    /\ UNCHANGED <<dirExists, files, now, submitted>>

\* The second attempt started over when it fails.
CreateTempRetry_Loop(p) ==
    /\ pc[p] = "add_retry"
    /\ IF dirExists
          THEN /\ HasFreeTmp
               /\ files' = [files EXCEPT ![NewTmpName] = [data |-> <<>>, mtime |-> now]]
               /\ Goto(p, "add_write", [loc[p] EXCEPT !.tmpFile = NewTmpName,
                                                      !.creates = @ + 1])
          ELSE /\ Goto(p, "add_mkdir", [loc[p] EXCEPT !.creates = @ + 1])
               /\ UNCHANGED files
    /\ UNCHANGED <<dirExists, now, submitted>>

\* tf, err = os.CreateTemp(dirname, "tmp"), the second attempt: a new empty
\* file, or the not-exist error again when os.MkdirAll has failed.
CreateTempRetry(p) ==
    /\ pc[p] = "add_retry"
    /\ IF dirExists
          THEN /\ HasFreeTmp
               /\ files' = [files EXCEPT ![NewTmpName] = [data |-> <<>>, mtime |-> now]]
               /\ Goto(p, "add_write", [loc[p] EXCEPT !.tmpFile = NewTmpName,
                                                      !.creates = @ + 1])
          ELSE /\ Return(p, <<"can't create tmp file", "ENOENT">>)
               /\ UNCHANGED files
    /\ UNCHANGED <<dirExists, now, submitted>>

\* The second os.CreateTemp fails although the directory is there.
CreateTempRetryFail(p) ==
    /\ pc[p] = "add_retry"
    /\ dirExists
    /\ Return(p, <<"can't create tmp file", "EIO">>)
    /\ UNCHANGED <<dirExists, files, now, submitted>>

\* A short write taken for a whole one.
WriteDone_Short(p) == Len(files[loc[p].tmpFile].data) >= 1

\* tf.Write(data) is over when all of data is in the file.
WriteDone(p) == files[loc[p].tmpFile].data = arg[p].data

\* tf.Write(data): the bytes reach the file one after the other.
WriteTemp(p) ==
    /\ pc[p] = "add_write"
    /\ IF WriteDone(p)
          THEN /\ Goto(p, "add_close", loc[p])
               /\ UNCHANGED files
          ELSE /\ files' = [files EXCEPT ![loc[p].tmpFile] =
                      [data |-> Append(@.data, arg[p].data[Len(@.data) + 1]),
                       mtime |-> now]]
               /\ Goto(p, "add_write", loc[p])
    /\ UNCHANGED <<dirExists, now, submitted>>

WriteTempFail(p) ==
    /\ pc[p] = "add_write"
    /\ Return(p, <<"can't write to temp file", "EIO">>)
    /\ UNCHANGED <<dirExists, files, now, submitted>>

\* tf.Close(); return tf.Name(), nil
CloseTemp(p) ==
    /\ pc[p] = "add_close"
    /\ Goto(p, "add_rename", loc[p])
    /\ UNCHANGED <<dirExists, files, now, submitted>>

CloseTempFail(p) ==
    /\ pc[p] = "add_close"
    /\ Return(p, <<"can't close tmp file", "">>)
    /\ UNCHANGED <<dirExists, files, now, submitted>>

\* The directory after os.Rename(from, to) has succeeded: the file takes the
\* name `to`, in place of the file that had it, if any.
Renamed(from, to) == [files EXCEPT ![to] = files[from], ![from] = NoFile]

\* os.Rename(tmpFile, c.indexBlobPath(id)) succeeds.
Rename(p) ==
    /\ pc[p] = "add_rename"
    /\ files' = Renamed(loc[p].tmpFile, indexBlobPath(arg[p].id))
    /\ Return(p, Nil)
    /\ UNCHANGED <<dirExists, now, submitted>>

\* os.Rename fails because the destination exists and the platform does not
\* replace it (it is open or mapped elsewhere, or another rename holds it).
RenameLoses(p) ==
    /\ pc[p] = "add_rename"
    /\ Exists(indexBlobPath(arg[p].id))
    /\ Goto(p, "add_recheck", loc[p])
    /\ UNCHANGED <<dirExists, files, now, submitted>>

\* os.Rename fails for another reason.
RenameFail(p) ==
    /\ pc[p] = "add_rename"
    /\ ~Exists(indexBlobPath(arg[p].id))
    /\ Goto(p, "add_recheck", loc[p])
    /\ UNCHANGED <<dirExists, files, now, submitted>>

\* Success whatever the second check finds.
RecheckResult_AlwaysNil(exists, indexBlobID) == Nil

\* What addContentToCache returns after the failed rename, from
\* exists, err := c.hasIndexBlobID(...)
RecheckResult(exists, indexBlobID) ==
    IF exists THEN Nil ELSE <<"unsuccessful index write of content", indexBlobID>>

Recheck(p) ==
    /\ pc[p] = "add_recheck"
    /\ Return(p, RecheckResult(hasIndexBlobID(arg[p].id), arg[p].id))
    /\ UNCHANGED <<dirExists, files, now, submitted>>

RecheckFail(p) ==
    /\ pc[p] = "add_recheck"
    /\ Return(p, <<"error checking", arg[p].id>>)
    /\ UNCHANGED <<dirExists, files, now, submitted>>

AddStep(p) ==
    \/ AddCheck(p)
    \/ CreateTemp(p)
    \/ MkdirRetry(p)
    \/ CreateTempRetry(p)
    \/ WriteTemp(p)
    \/ CloseTemp(p)
    \/ Rename(p)
    \/ RenameLoses(p)
    \/ Recheck(p)

AddFault(p) ==
    \/ AddCheckFail(p)
    \/ CreateTempFail(p)
    \/ MkdirRetryFail(p)
    \/ CreateTempRetryFail(p)
    \/ WriteTempFail(p)
    \/ CloseTempFail(p)
    \/ RenameFail(p)
    \/ RecheckFail(p)

\* --------------------------------------------------------- expireUnused
ExpireCall(p, used) ==
    /\ Call(p, [NoArg EXCEPT !.op = "expire", !.used = used], "exp_list")
    /\ UNCHANGED submitted

\* The entries of ioutil.ReadDir(c.dirname): the names in the directory, each
\* with its ModTime.
ReadDir == [n \in {m \in Names : files[m] # NoFile} |-> files[n].mtime]

\* The loop over used forgotten.
Remaining_IgnoreUsed(entries, used) ==
    LET kept == {e \in DOMAIN entries : HasSuffix(e, simpleIndexSuffix)}
        keys == {TrimSuffix(n, simpleIndexSuffix) : n \in kept}
    IN  [k \in keys |->
            LET n == CHOOSE e \in kept : TrimSuffix(e, simpleIndexSuffix) = k
            IN  [name |-> n, mtime |-> entries[n]]]

\* The map remaining after its two loops: the listed entries whose name
\* carries the suffix, keyed by the name without it, less the keys in used.
\* An entry is its Name() and its ModTime().
Remaining(entries, used) ==
    LET kept == {e \in DOMAIN entries : HasSuffix(e, simpleIndexSuffix)}
        keys == {TrimSuffix(n, simpleIndexSuffix) : n \in kept} \ used
    IN  [k \in keys |->
            LET n == CHOOSE e \in kept : TrimSuffix(e, simpleIndexSuffix) = k
            IN  [name |-> n, mtime |-> entries[n]]]

ExpireList(p) ==
    /\ pc[p] = "exp_list"
    /\ IF dirExists
          THEN Goto(p, "exp_loop", [loc[p] EXCEPT !.entries = ReadDir,
                                       !.remaining = Remaining(ReadDir, arg[p].used)])
          ELSE Return(p, <<"can't list cache", "ENOENT">>)
    /\ UNCHANGED <<dirExists, files, now, submitted>>

\* ioutil.ReadDir fails although the directory exists.
ExpireListFail(p) ==
    /\ pc[p] = "exp_list"
    /\ dirExists
    /\ Return(p, <<"can't list cache", "EIO">>)
    /\ UNCHANGED <<dirExists, files, now, submitted>>

\* >= for >
TooOld_AtLeast(modTime) == now - modTime >= unusedCommittedContentIndexCleanupTime

\* c.timeNow().Sub(rem.ModTime()) > unusedCommittedContentIndexCleanupTime
TooOld(modTime) == now - modTime > unusedCommittedContentIndexCleanupTime

\* The keys the last loop has still to go through (a map is ranged over in no
\* fixed order).
ToVisit(p) == DOMAIN loc[p].remaining \ loc[p].visited

\* One turn of the last loop: os.Remove(filepath.Join(c.dirname, rem.Name()))
\* of an entry that is old enough, which fails when the file is gone already;
\* an entry that is not is kept.
ExpireStep(p) ==
    /\ pc[p] = "exp_loop"
    /\ \E k \in ToVisit(p) :
          LET rem == loc[p].remaining[k] IN
          IF TooOld(rem.mtime)
             THEN IF Exists(rem.name)
                     THEN /\ files' = [files EXCEPT ![rem.name] = NoFile]
                          /\ Goto(p, "exp_loop", [loc[p] EXCEPT !.visited = @ \cup {k}])
                     ELSE /\ UNCHANGED files
                          /\ Goto(p, "exp_loop", [loc[p] EXCEPT !.visited = @ \cup {k},
                                                                !.errlog = @ + 1])
             ELSE /\ UNCHANGED files
                  /\ Goto(p, "exp_loop", [loc[p] EXCEPT !.visited = @ \cup {k}])
    /\ UNCHANGED <<dirExists, now, submitted>>

\* The error of os.Remove returned instead of logged.
ExpireRemoveFail_Abort(p) ==
    /\ pc[p] = "exp_loop"
    /\ \E k \in ToVisit(p) :
          /\ TooOld(loc[p].remaining[k].mtime)
          /\ Exists(loc[p].remaining[k].name)
    /\ Return(p, <<"unable to remove unused index file", "EIO">>)
    /\ UNCHANGED <<dirExists, files, now, submitted>>

\* os.Remove of an entry that is old enough fails although the file is there.
ExpireRemoveFail(p) ==
    /\ pc[p] = "exp_loop"
    /\ \E k \in ToVisit(p) :
          /\ TooOld(loc[p].remaining[k].mtime)
          /\ Exists(loc[p].remaining[k].name)
          /\ Goto(p, "exp_loop", [loc[p] EXCEPT !.visited = @ \cup {k}, !.errlog = @ + 1])
    /\ UNCHANGED <<dirExists, files, now, submitted>>

\* The loop is over: return nil
ExpireDone(p) ==
    /\ pc[p] = "exp_loop"
    /\ ToVisit(p) = {}
    /\ Return(p, Nil)
    /\ UNCHANGED <<dirExists, files, now, submitted>>

ExpireRun(p) ==
    \/ ExpireList(p)
    \/ ExpireStep(p)
    \/ ExpireDone(p)

ExpireFault(p) ==
    \/ ExpireListFail(p)
    \/ ExpireRemoveFail(p)

\* ------------------------------------------------------------ openIndex
OpenCall(p, id) ==
    /\ Call(p, [NoArg EXCEPT !.op = "open", !.id = id], "open_first")
    /\ UNCHANGED submitted

\* What mmap.Open(path) returns when nothing else goes wrong.
mmapOpen(path) == IF Exists(path) THEN "nil" ELSE "ENOENT"

\* f, err := mmap.Open(path); nextDelay := startingDelay; retryCount := 0
\* where e is the error of the call.
OpenFirstAs(p, e) ==
    /\ pc[p] = "open_first"
    /\ Goto(p, "open_loop", [loc[p] EXCEPT !.opens = @ + 1, !.err = e,
                                           !.nextDelay = startingDelay,
                                           !.retryCount = 0])
    /\ UNCHANGED <<dirExists, files, now, submitted>>

OpenFirst(p) == OpenFirstAs(p, mmapOpen(indexBlobPath(arg[p].id)))

\* <= for <
ShouldRetry_OneMore(p) == loc[p].err # "nil" /\ loc[p].retryCount <= maxRetries

\* The loop's condition: err != nil && retryCount < maxRetries
ShouldRetry(p) == loc[p].err # "nil" /\ loc[p].retryCount < maxRetries

\* The delay not doubled.
OpenSleep_SameDelay(p) ==
    /\ pc[p] = "open_loop"
    /\ ShouldRetry(p)
    /\ Goto(p, "open_retry", [loc[p] EXCEPT !.retryCount = @ + 1,
                                            !.slept = Append(@, loc[p].nextDelay)])
    /\ UNCHANGED <<dirExists, files, now, submitted>>

\* retryCount++; time.Sleep(nextDelay); nextDelay *= 2
OpenSleep(p) ==
    /\ pc[p] = "open_loop"
    /\ ShouldRetry(p)
    /\ Goto(p, "open_retry", [loc[p] EXCEPT !.retryCount = @ + 1,
                                            !.slept = Append(@, loc[p].nextDelay),
                                            !.nextDelay = @ * 2])
    /\ UNCHANGED <<dirExists, files, now, submitted>>

\* f, err = mmap.Open(path), in the loop
OpenRetryAs(p, e) ==
    /\ pc[p] = "open_retry"
    /\ Goto(p, "open_loop", [loc[p] EXCEPT !.opens = @ + 1, !.err = e])
    /\ UNCHANGED <<dirExists, files, now, submitted>>

OpenRetry(p) == OpenRetryAs(p, mmapOpen(indexBlobPath(arg[p].id)))

\* mmap.Open fails although the file is there (it was written a moment ago).
OpenFirstFail(p) == Exists(indexBlobPath(arg[p].id)) /\ OpenFirstAs(p, "EACCES")
OpenRetryFail(p) == Exists(indexBlobPath(arg[p].id)) /\ OpenRetryAs(p, "EACCES")

\* A nil err wrapped like any other.
Wrap_Nil(e, msg) == <<msg, e>>

\* errors.Wrap(err, msg): nil for a nil err
Wrap(e, msg) == IF e = "nil" THEN Nil ELSE <<msg, e>>

\* What openIndex returns from f, err := c.mmapOpenWithRetry(fullpath): the
\* error as it is, or openPackIndex(f, ...)
openIndex(e) == IF e # Nil THEN e ELSE <<"packIndex", "">>

\* return f, errors.Wrap(err, "mmap() error"), and openIndex's use of it
OpenReturn(p) ==
    /\ pc[p] = "open_loop"
    /\ ~ShouldRetry(p)
    /\ Return(p, openIndex(Wrap(loc[p].err, "mmap() error")))
    /\ UNCHANGED <<dirExists, files, now, submitted>>

OpenStep(p) ==
    \/ OpenFirst(p)
    \/ OpenSleep(p)
    \/ OpenRetry(p)
    \/ OpenReturn(p)

OpenFault(p) ==
    \/ OpenFirstFail(p)
    \/ OpenRetryFail(p)

\* -------------------------------------------------------- newBlockCache
\* && for ||
UseNull_Both(o) == o.MaxCacheSizeBytes = 0 /\ o.CacheDirectory = ""

\* caching.MaxCacheSizeBytes == 0 || caching.CacheDirectory == ""
UseNull(o) == o.MaxCacheSizeBytes = 0 \/ o.CacheDirectory = ""

\* The constructor goes straight to the background task.
AfterBuild_NoSweep == "ctor_spawn"

\* What follows c := &diskBlockCache{...}: the call c.sweepDirectory()
AfterBuild == "ctor_sweep"

\* newBlockCache(st, caching) up to its first call: return nullBlockCache{st},
\* or c := &diskBlockCache{...}
NewBlockCache ==
    /\ bpc = "new"
    /\ IF UseNull(caching)
          THEN /\ c' = nullBlockCache("st")
               /\ bpc' = "ready"
          ELSE /\ c' = diskBlockCache("st", caching)
               /\ bpc' = AfterBuild
    /\ UNCHANGED <<caching, blockDir, sweep, hist, now>>
    /\ UNCHANGED indexVars

\* The files of the cache directory, each with its size and modification time.
ListBlocks == [b \in {x \in BlockIDs : blockDir[x] # NoBlock} |-> blockDir[b]]

RECURSIVE SumSizes(_, _)
SumSizes(S, f) ==
    IF S = {} THEN 0
    ELSE LET x == CHOOSE y \in S : TRUE IN f[x].size + SumSizes(S \ {x}, f)

TotalSize(items) == SumSizes(DOMAIN items, items)

\* The newest for the oldest.
Oldest_Newest(items) == {b \in DOMAIN items : \A o \in DOMAIN items : items[b].mtime >= items[o].mtime}

\* The files of items that none of items is older than.
Oldest(items) == {b \in DOMAIN items : \A o \in DOMAIN items : items[b].mtime <= items[o].mtime}

\* sweepDirectory scans the directory and sums the sizes of its files.
SweepBegin(by) ==
    /\ sweep.at = "idle"
    /\ sweep' = [at |-> "evict", by |-> by, listed |-> ListBlocks, items |-> ListBlocks,
                 dirty |-> FALSE]

\* c.sweepDirectory(), called by newBlockCache
CtorSweep ==
    /\ bpc = "ctor_sweep"
    /\ SweepBegin("ctor")
    /\ bpc' = "in_sweep"
    /\ UNCHANGED <<caching, c, blockDir, hist, now>>
    /\ UNCHANGED indexVars

\* sweepDirectory evicts a file, the oldest first, while the size retained is
\* above the ceiling.
SweepEvict ==
    /\ sweep.at = "evict"
    /\ TotalSize(sweep.items) > c.maxSizeBytes
    /\ \E b \in Oldest(sweep.items) :
          /\ blockDir' = [blockDir EXCEPT ![b] = NoBlock]
          /\ sweep' = [sweep EXCEPT !.items = [x \in DOMAIN sweep.items \ {b} |-> sweep.items[x]]]
    /\ UNCHANGED <<caching, bpc, c, hist, now>>
    /\ UNCHANGED indexVars

\* sweepDirectory returns: to newBlockCache, which goes on, or to the task.
SweepEnd ==
    /\ sweep.at = "evict"
    /\ TotalSize(sweep.items) <= c.maxSizeBytes
    /\ sweep' = NoSweep
    /\ hist' = [hist EXCEPT !.sweeps = @ + 1]
    /\ bpc' = IF sweep.by = "ctor" THEN "ctor_spawn" ELSE bpc
    /\ UNCHANGED <<caching, c, blockDir, now>>
    /\ UNCHANGED indexVars

\* go c.sweepDirectoryPeriodically()
CtorSpawn ==
    /\ bpc = "ctor_spawn"
    /\ hist' = [hist EXCEPT !.bgTasks = @ + 1]
    /\ bpc' = "ctor_return"
    /\ UNCHANGED <<caching, c, blockDir, sweep, now>>
    /\ UNCHANGED indexVars

\* return c
CtorReturn ==
    /\ bpc = "ctor_return"
    /\ bpc' = "ready"
    /\ UNCHANGED <<caching, c, blockDir, sweep, hist, now>>
    /\ UNCHANGED indexVars

\* The period of sweepDirectoryPeriodically is over: it calls sweepDirectory.
BgSweep ==
    /\ hist.bgTasks >= 1
    /\ hist.sweeps < MaxSweeps
    /\ SweepBegin("bg")
    /\ UNCHANGED <<caching, bpc, c, blockDir, hist, now>>
    /\ UNCHANGED indexVars

\* A call on the cache that newBlockCache has returned, and the calls it
\* makes on the storage.
Called(op, onSt) ==
    /\ bpc = "ready"
    /\ Len(hist.calls) < MaxCalls
    /\ hist' = [hist EXCEPT !.calls = Append(@, op), !.st = @ \o onSt]

\* A file of the given size is published in the cache directory.
Populate(b, size) ==
    /\ blockDir' = [blockDir EXCEPT ![b] = [size |-> size, mtime |-> now]]
    /\ sweep' = IF sweep.at = "idle" THEN sweep ELSE [sweep EXCEPT !.dirty = TRUE]

\* nullBlockCache: getBlock, putBlock and listIndexBlocks go to the storage.
NullCall(op) ==
    /\ c.variant = "null"
    /\ Called(op, <<op>>)
    /\ UNCHANGED <<caching, bpc, c, blockDir, sweep, now>>
    /\ UNCHANGED indexVars

\* diskBlockCache.getBlock served from the local file.
DiskGetHit(b) ==
    /\ c.variant = "disk"
    /\ blockDir[b] # NoBlock
    /\ Called("getBlock", <<>>)
    /\ UNCHANGED <<caching, bpc, c, blockDir, sweep, now>>
    /\ UNCHANGED indexVars

\* diskBlockCache.getBlock fetches from the storage and populates the cache.
DiskGetMiss(b, size) ==
    /\ c.variant = "disk"
    /\ blockDir[b] = NoBlock
    /\ Called("getBlock", <<"getBlock">>)
    /\ Populate(b, size)
    /\ UNCHANGED <<caching, bpc, c, now>>
    /\ UNCHANGED indexVars

\* diskBlockCache.putBlock writes through to the storage and populates the cache.
DiskPut(b, size) ==
    /\ c.variant = "disk"
    /\ Called("putBlock", <<"putBlock">>)
    /\ Populate(b, size)
    /\ UNCHANGED <<caching, bpc, c, now>>
    /\ UNCHANGED indexVars

\* diskBlockCache.listIndexBlocks, from the storage or from the cached listing.
DiskList(refresh) ==
    /\ c.variant = "disk"
    /\ Called("listIndexBlocks", IF refresh THEN <<"listIndexBlocks">> ELSE <<>>)
    /\ UNCHANGED <<caching, bpc, c, blockDir, sweep, now>>
    /\ UNCHANGED indexVars

\* ------------------------------------------------------- specifications
\* Callers that share the directory, each making one call after the other,
\* on a file system whose calls may fail.
Next ==
    \/ Tick
    \/ \E p \in Procs :
          \/ \E id \in RaceIDs : HasCall(p, id)
          \/ \E id \in RaceIDs, data \in Payloads : AddCall(p, id, data)
          \/ \E used \in SUBSET RaceIDs : ExpireCall(p, used)
          \/ HasStat(p)
          \/ HasStatFail(p)
          \/ AddStep(p)
          \/ AddFault(p)
          \/ ExpireRun(p)
          \/ ExpireFault(p)

Spec == Init /\ [][Next]_vars

\* Every caller has called addContentToCache on the same id, each with a
\* payload of its own choice, and no call of the file system fails for a
\* reason other than the race.
InitAdd ==
    /\ dirExists \in BOOLEAN
    /\ files = [n \in Names |-> NoFile]
    /\ now = 0
    /\ pc = [p \in Procs |-> "add_check"]
    /\ arg \in [Procs -> {[NoArg EXCEPT !.op = "add", !.id = "a", !.data = d] : d \in Payloads}]
    /\ loc = [p \in Procs |-> NoLoc]
    /\ ret = [p \in Procs |-> None]
    /\ submitted = [i \in IDs |-> IF i = "a" THEN {arg[p].data : p \in Procs} ELSE {}]
    /\ BlockIdle

NextAdd == \E p \in Procs : AddStep(p)

SpecAdd == InitAdd /\ [][NextAdd]_vars

\* One call after the other: a call begins and goes on only while no other
\* caller is inside one, and no call of the file system fails.  (The rename
\* cannot then find a destination that the check before it has not seen.)
Quiet(p) == \A q \in Procs \ {p} : pc[q] = "idle"

NextSeq ==
    \/ Tick
    \/ \E p \in Procs :
          \/ Quiet(p) /\ \E data \in Payloads : AddCall(p, "a", data)
          \/ Quiet(p) /\ AddCheck(p)
          \/ Quiet(p) /\ CreateTemp(p)
          \/ Quiet(p) /\ MkdirRetry(p)
          \/ Quiet(p) /\ CreateTempRetry(p)
          \/ Quiet(p) /\ WriteTemp(p)
          \/ Quiet(p) /\ CloseTemp(p)
          \/ Quiet(p) /\ Rename(p)

SpecSeq == Init /\ [][NextSeq]_vars

\* One run of expireUnused, with no other call, on a directory that holds
\* any of the index files, of any age (the time source may run behind the
\* clock of the file system), and may hold a temporary file that a failed
\* addContentToCache has left.
InitExpire ==
    /\ dirExists = TRUE
    /\ files \in {f \in [Names -> {NoFile} \cup [data : {<<1, 1>>, <<1>>}, mtime : 0..MaxTime]] :
                    /\ \A id \in IDs : f[indexBlobPath(id)].data # <<1>>
                    /\ f[<<TmpPool[1], "">>] \in {NoFile, [data |-> <<1>>, mtime |-> 0]}
                    /\ \A i \in 2..MaxTmp : f[<<TmpPool[i], "">>] = NoFile}
    /\ now \in 0..MaxTime
    /\ pc = [p \in Procs |-> IF p = 1 THEN "exp_list" ELSE "idle"]
    /\ arg \in {[p \in Procs |-> IF p = 1 THEN [NoArg EXCEPT !.op = "expire", !.used = u]
                                          ELSE NoArg] : u \in SUBSET IDs}
    /\ loc = [p \in Procs |-> NoLoc]
    /\ ret = [p \in Procs |-> None]
    /\ submitted = [i \in IDs |-> IF Exists(indexBlobPath(i)) THEN {<<1, 1>>} ELSE {}]
    /\ BlockIdle

NextExpire == \E p \in Procs : ExpireRun(p) \/ ExpireFault(p)

SpecExpire == InitExpire /\ [][NextExpire]_vars

\* Callers that open an index while others add it: the file may appear
\* between two attempts of mmap.Open, and an attempt may fail although the
\* file is there.
NextOpen ==
    \E p \in Procs :
        \/ \E id \in RaceIDs : OpenCall(p, id)
        \/ \E id \in RaceIDs, data \in Payloads : AddCall(p, id, data)
        \/ OpenStep(p)
        \/ OpenFault(p)
        \/ AddStep(p)

SpecOpen == Init /\ [][NextOpen]_vars

\* newBlockCache called with any options on a cache directory that holds any
\* files (none when no directory is configured), the cache it returns being
\* used while its background task sweeps.
InitBlock ==
    /\ dirExists = FALSE
    /\ files = [n \in Names |-> NoFile]
    /\ now = 0
    /\ pc = [p \in Procs |-> "idle"]
    /\ arg = [p \in Procs |-> NoArg]
    /\ loc = [p \in Procs |-> NoLoc]
    /\ ret = [p \in Procs |-> None]
    /\ submitted = [i \in IDs |-> {}]
    /\ caching \in [CacheDirectory : {"", "/cache"}, MaxCacheSizeBytes : 0..MaxCeiling]
    /\ blockDir \in [BlockIDs -> {NoBlock} \cup [size : 1..MaxSize, mtime : 0..MaxTime]]
    /\ caching.CacheDirectory = "" => blockDir = [b \in BlockIDs |-> NoBlock]
    /\ bpc = "new"
    /\ c = NoCache
    /\ sweep = NoSweep
    /\ hist = NoHist

NextBlock ==
    \/ Tick
    \/ NewBlockCache
    \/ CtorSweep
    \/ SweepEvict
    \/ SweepEnd
    \/ CtorSpawn
    \/ CtorReturn
    \/ BgSweep
    \/ \E op \in {"getBlock", "putBlock", "listIndexBlocks"} : NullCall(op)
    \/ \E b \in BlockIDs : DiskGetHit(b)
    \/ \E b \in BlockIDs, size \in 1..MaxSize : DiskGetMiss(b, size)
    \/ \E b \in BlockIDs, size \in 1..MaxSize : DiskPut(b, size)
    \/ \E refresh \in BOOLEAN : DiskList(refresh)

SpecBlock == InitBlock /\ [][NextBlock]_vars

\* --------------------------------------------------------------- claims
\* The names in the directory.
Listing == {n \in Names : files[n] # NoFile}
AllReturned == \A p \in Procs : pc[p] = "idle"

\* C1 (as stated): once N >= 2 racing calls addContentToCache(id, ...) have
\* all returned, each has returned success and the directory holds exactly
\* one file, <id>.sndx, with no temporary file left by any caller, whose
\* bytes are the whole payload of one of the callers.
C1_RaceLeavesOneFile ==
    AllReturned =>
        /\ \A p \in Procs : ret[p] = Nil
        /\ Listing = {indexBlobPath("a")}
        /\ files[indexBlobPath("a")].data \in submitted["a"]

\* A temporary file that holds only a part of the payload being written.
PartlyWritten(p) ==
    /\ pc[p] = "add_write"
    /\ Len(files[loc[p].tmpFile].data) < Len(arg[p].data)

\* C2: in every reachable state a file under a final name <id>.sndx holds the
\* whole payload of some addContentToCache(id, ...) call; a payload that is
\* written in part is in a file with a temporary name only.
C2_NoPartialVisibility ==
    /\ \A id \in IDs :
          Exists(indexBlobPath(id)) => files[indexBlobPath(id)].data \in submitted[id]
    /\ \A p \in Procs :
          PartlyWritten(p) => ~HasSuffix(loc[p].tmpFile, simpleIndexSuffix)

\* A final file is there while another payload for the same id is half written.
C2_Witness ==
    \E p \in Procs :
        /\ PartlyWritten(p)
        /\ Len(files[loc[p].tmpFile].data) = 1
        /\ Exists(indexBlobPath(arg[p].id))
        /\ files[indexBlobPath(arg[p].id)].data # arg[p].data

\* C3: of two calls addContentToCache(id, b1), addContentToCache(id, b2)
\* made one after the other neither returns an error; the first leaves
\* <id>.sndx with the bytes b1, and the second, which finds it, returns
\* success at once, creating no temporary file and leaving the directory (the
\* bytes and the modification time of <id>.sndx) as it was; the directory then
\* holds that one file.
C3_Idempotence ==
    /\ [](\A p \in Procs : pc[p] = "idle" => ret[p] \in {None, Nil})
    /\ [](AllReturned /\ submitted["a"] # {} => Listing = {indexBlobPath("a")})
    /\ [][\A p \in Procs :
            /\ (pc[p] = "add_rename" /\ pc'[p] = "idle")
                  => files'[indexBlobPath(arg[p].id)].data = arg[p].data
            /\ (pc[p] = "add_check" /\ pc'[p] # "add_check" /\ Exists(indexBlobPath(arg[p].id)))
                  => pc'[p] = "idle" /\ ret'[p] = Nil /\ files' = files]_vars
    /\ [][Exists(indexBlobPath("a")) => files' = files]_vars

\* Two calls with different payloads have returned success, the second after
\* the clock has moved on, and the file is the one the first has written.
C3_Witness ==
    /\ AllReturned
    /\ Cardinality(submitted["a"]) = 2
    /\ \A p \in Procs : ret[p] = Nil
    /\ Exists(indexBlobPath("a"))
    /\ files[indexBlobPath("a")].mtime < now

\* The last loop of p's expireUnused is over.
LoopOver(p) == pc[p] = "exp_loop" /\ ToVisit(p) = {}
\* The age of a listed entry.
Age(p, id) == now - loc[p].entries[indexBlobPath(id)]
Listed(p) == {id \in IDs : indexBlobPath(id) \in DOMAIN loc[p].entries}
\* The listed entries that are gone.
Deleted(p) == {id \in Listed(p) : ~Exists(indexBlobPath(id))}
\* The listed entries that are not in used and more than an hour old.
Expired(p) == {id \in Listed(p) \ arg[p].used : Age(p, id) > 1 * TicksPerHour}

\* C4: no step of expireUnused(used) changes the file <id>.sndx of an id in
\* used, whatever its age.
C4_UsedNeverDeleted ==
    [][\A p \in Procs : pc[p] \in {"exp_list", "exp_loop"} =>
          \A id \in arg[p].used : files'[indexBlobPath(id)] = files[indexBlobPath(id)]]_vars

\* The run is over and an entry in used, more than an hour old, is still there.
C4_Witness ==
    \E p \in Procs : \E id \in arg[p].used :
        /\ LoopOver(p)
        /\ id \in Listed(p)
        /\ Age(p, id) > 1 * TicksPerHour
        /\ Exists(indexBlobPath(id))
        /\ Deleted(p) # {}

\* C5: a run of expireUnused(used) with no other call deletes no entry that
\* is in used or at most an hour old (exactly an hour, or of a future
\* modification time), and, when no os.Remove has failed, deletes exactly the
\* listed entries that are not in used and more than an hour old.
C5_ExpireResult ==
    \A p \in Procs : pc[p] = "exp_loop" =>
        /\ Deleted(p) \subseteq Expired(p)
        /\ LoopOver(p) /\ loc[p].errlog = 0 => Deleted(p) = Expired(p)

\* The run is over on {a: not over an hour old, unused; b: older, unused;
\* c: older, used}: only b is gone.
C5_Witness ==
    \E p \in Procs :
        /\ LoopOver(p)
        /\ Listed(p) = {"a", "b", "c"}
        /\ arg[p].used = {"c"}
        /\ Age(p, "a") = 1 * TicksPerHour
        /\ Age(p, "b") > 1 * TicksPerHour
        /\ Age(p, "c") > 1 * TicksPerHour
        /\ Deleted(p) = {"b"}

\* C10: a failed os.Remove is logged and nothing more: the run goes on with
\* the other candidates and returns no error; a run whose listing has
\* succeeded returns nil, and only after every candidate has had its turn, so
\* that each candidate more than an hour old is gone or has been logged.
C10_BestEffort ==
    /\ [][\A p \in Procs :
            /\ loc'[p].errlog > loc[p].errlog => pc'[p] = "exp_loop" /\ ret'[p] = None
            /\ (pc[p] = "exp_loop" /\ pc'[p] = "idle") => ret'[p] = Nil /\ ToVisit(p) = {}]_vars
    /\ [](\A p \in Procs :
            LoopOver(p) => Cardinality(Expired(p) \ Deleted(p)) = loc[p].errlog)

\* The run is over; a removal has failed and another has been made all the same.
C10_Witness ==
    \E p \in Procs :
        /\ LoopOver(p)
        /\ loc[p].errlog >= 1
        /\ Deleted(p) # {}
        /\ Cardinality(Expired(p)) >= 2

\* C6: hasIndexBlobID(id), when its os.Stat does not fail, returns whether
\* <id>.sndx is there; the file is not there before any addContentToCache(id,
\* ...) is made, is there when an addContentToCache(id, ...) returns success,
\* and from then on goes away only by a removal of expireUnused.
C6_ExistenceLifeCycle ==
    /\ [](\A id \in IDs : submitted[id] = {} => ~Exists(indexBlobPath(id)))
    /\ [][\A p \in Procs :
            LET dest == indexBlobPath(arg[p].id) IN
            /\ (pc[p] = "has_stat" /\ pc'[p] = "idle" /\ ret'[p][1] # "error checking")
                  => ret'[p] = IF Exists(dest) THEN True ELSE False
            /\ (arg[p].op = "add" /\ pc'[p] = "idle" /\ ret'[p] = Nil)
                  => dirExists' /\ files'[dest] # NoFile]_vars
    /\ [][\A id \in IDs :
            (Exists(indexBlobPath(id)) /\ files'[indexBlobPath(id)] = NoFile)
               => \E p \in Procs : /\ pc[p] = "exp_loop"
                                   /\ id \in ToVisit(p)
                                   /\ loc'[p].visited = loc[p].visited \cup {id}]_vars

\* hasIndexBlobID has returned false for an id whose file has been added and
\* which a running expireUnused has removed.
C6_Witness ==
    \E p, q \in Procs :
        /\ pc[p] = "idle" /\ ret[p] = False
        /\ submitted["a"] # {}
        /\ pc[q] = "exp_loop" /\ "a" \in loc[q].visited /\ loc[q].errlog = 0
        /\ TooOld(loc[q].remaining["a"].mtime)
        /\ ~Exists(indexBlobPath("a"))

\* C9: a failed rename is followed by a second check of the destination, not
\* by a return; after it addContentToCache returns success when the
\* destination is there, and the error "unsuccessful index write" naming the
\* id when it is not (or the error of the check); and whenever
\* addContentToCache returns success the destination is there before or
\* after the step that returns.
C9_RenameFailureRecheck ==
    [][\A p \in Procs :
          LET dest == indexBlobPath(arg[p].id) IN
          /\ (pc[p] = "add_rename" /\ pc'[p] # "add_rename" /\ files' = files)
                => pc'[p] = "add_recheck" /\ ret'[p] = None
          /\ (pc[p] = "add_recheck" /\ pc'[p] = "idle" /\ ret'[p][1] # "error checking")
                => ret'[p] = IF Exists(dest)
                                THEN Nil
                                ELSE <<"unsuccessful index write of content", arg[p].id>>
          /\ (arg[p].op = "add" /\ pc'[p] = "idle" /\ ret'[p] = Nil)
                => Exists(dest) \/ (dirExists' /\ files'[dest] # NoFile)]_vars

\* A call has returned the error: its rename has failed and the destination
\* was not there at the second check.
C9_Witness ==
    \E p \in Procs :
        pc[p] = "idle" /\ ret[p] = <<"unsuccessful index write of content", "a">>

\* C7 (as stated): the retrying open gives up after 8 calls of mmap.Open:
\* when 8 have failed no further one is made.
C7_EightAttempts == \A p \in Procs : loc[p].opens <= 8

\* C7 (amended): the retrying open makes at most 9 calls of mmap.Open, the
\* first and maxRetries = 8 more; when all 9 have failed it makes no further
\* one and can only return, and openIndex then fails with the last error of
\* mmap.Open wrapped as "mmap() error": not that error as it is, and no pack
\* index. It returns an error in no other case.
C7_Exhaustion ==
    /\ [](\A p \in Procs :
            /\ loc[p].opens <= maxRetries + 1
            /\ (pc[p] = "open_loop" /\ loc[p].err # "nil" /\ loc[p].opens = maxRetries + 1)
                  => ENABLED OpenReturn(p) /\ ~ENABLED OpenSleep(p))
    /\ [][\A p \in Procs :
            (pc[p] = "open_loop" /\ loc[p].err # "nil" /\ pc'[p] = "idle")
               => /\ loc[p].opens = maxRetries + 1
                  /\ ret'[p] = <<"mmap() error", loc[p].err>>]_vars

\* All 9 calls have failed, after 8 sleeps.
C7_Witness ==
    \E p \in Procs :
        /\ pc[p] = "open_loop"
        /\ loc[p].err # "nil"
        /\ loc[p].opens = maxRetries + 1
        /\ Len(loc[p].slept) = maxRetries

\* C8: when mmap.Open succeeds, on the first call or after k failed ones, the
\* retrying open makes no further call and openIndex goes on to the pack
\* index with no error, after exactly k sleeps (none, and one call, when the
\* first call succeeds).
C8_RetrySuccess ==
    [][\A p \in Procs :
          (pc[p] = "open_loop" /\ loc[p].err = "nil" /\ pc'[p] # "open_loop")
             => /\ pc'[p] = "idle"
                /\ ret'[p] = <<"packIndex", "">>
                /\ Len(loc[p].slept) = loc[p].opens - 1
                /\ loc[p].opens = 1 => loc[p].slept = <<>>]_vars

\* Three calls have failed and the fourth has succeeded, after three sleeps.
C8_Witness ==
    \E p \in Procs :
        /\ pc[p] = "open_loop"
        /\ loc[p].err = "nil"
        /\ loc[p].opens = 4
        /\ Len(loc[p].slept) = 3

\* C11: hasIndexBlobID(id) returns (true, nil) when os.Stat succeeds, (false,
\* nil) when it fails with a not-exist error and (false, "error checking
\* <id>") when it fails otherwise, and changes nothing; addContentToCache
\* goes on from its first check only when the file is not there, and returns
\* the error of that check having created no temporary file and changed no
\* file of the directory.
C11_StatOutcomes ==
    [][\A p \in Procs :
          LET dest == indexBlobPath(arg[p].id) IN
          /\ (pc[p] = "has_stat" /\ pc'[p] = "idle")
                => /\ ret'[p] \in {True, False, <<"error checking", arg[p].id>>}
                   /\ ret'[p] = True => Exists(dest)
                   /\ ret'[p] = False => ~Exists(dest)
                   /\ files' = files /\ dirExists' = dirExists
          /\ (pc[p] = "add_check" /\ pc'[p] = "idle" /\ ret'[p] # Nil)
                => /\ ret'[p] = <<"error checking", arg[p].id>>
                   /\ loc[p].tmpFile = <<>>
                   /\ files' = files /\ dirExists' = dirExists
          /\ (pc[p] = "add_check" /\ pc'[p] \notin {"add_check", "idle"})
                => ~Exists(dest)]_vars

\* Every caller's last call has returned the error of the check, payloads
\* have been passed to addContentToCache, and the directory has not even been
\* created.
C11_Witness ==
    /\ AllReturned
    /\ \A p \in Procs : ret[p] = <<"error checking", "a">>
    /\ Cardinality(submitted["a"]) = 2
    /\ ~dirExists
    /\ Listing = {}

\* C12 (as stated): expireUnused called while the cache directory does not
\* exist takes the listing for empty, deletes nothing and returns no error.
C12_MissingDirNoError ==
    [][\A p \in Procs :
          (pc[p] = "exp_list" /\ ~dirExists /\ pc'[p] # "exp_list")
             => /\ files' = files
                /\ pc'[p] = "idle" => ret'[p] = Nil]_vars

\* C13: newBlockCache returns the no-op variant if and only if
\* MaxCacheSizeBytes is zero or CacheDirectory is empty, and the disk variant
\* otherwise; the no-op variant is returned at once, with no sweep run and no
\* background task started, holds the storage and nothing else, creates or
\* removes no local file, and passes every getBlock, putBlock and
\* listIndexBlocks call to the storage.
C13_VariantSelection ==
    /\ [](bpc # "new" =>
            /\ c.variant = "null"
                  <=> (caching.MaxCacheSizeBytes = 0 \/ caching.CacheDirectory = "")
            /\ c.variant = "disk"
                  <=> ~(caching.MaxCacheSizeBytes = 0 \/ caching.CacheDirectory = ""))
    /\ [](c.variant = "null" =>
            /\ bpc = "ready"
            /\ c = [variant |-> "null", st |-> "st"]
            /\ hist.sweeps = 0 /\ hist.bgTasks = 0 /\ sweep = NoSweep
            /\ hist.st = hist.calls)
    /\ [][c'.variant = "null" => blockDir' = blockDir]_vars

\* A size ceiling of zero with a directory that holds files: the no-op
\* variant has passed two different calls on and the files are all there.
C13_Witness ==
    /\ c.variant = "null"
    /\ caching.CacheDirectory # ""
    /\ \A b \in BlockIDs : blockDir[b] # NoBlock
    /\ Len(hist.calls) = 2
    /\ hist.calls[1] # hist.calls[2]
    /\ hist.st = hist.calls

\* C14: newBlockCache, when it builds the disk variant, runs one sweep of the
\* directory to its end, then starts the background task, then returns: no
\* task runs and no call is made on the cache before that sweep is over, one
\* task and no more is started for a disk cache, and none for the no-op
\* variant.
C14_ConstructionOrder ==
    /\ hist.bgTasks <= 1
    /\ bpc \in {"new", "ctor_sweep", "in_sweep", "ctor_spawn"} => hist.bgTasks = 0
    /\ bpc \in {"new", "ctor_sweep", "in_sweep"} => hist.sweeps = 0
    /\ bpc = "in_sweep" => sweep.at = "evict" /\ sweep.by = "ctor"
    /\ bpc = "ctor_spawn" => hist.sweeps = 1 /\ sweep = NoSweep
    /\ hist.bgTasks = 1 => c.variant = "disk" /\ hist.sweeps >= 1
    /\ bpc = "ready" => hist.bgTasks = (IF c.variant = "disk" THEN 1 ELSE 0)
    /\ hist.calls # <<>> => bpc = "ready" /\ (c.variant = "disk" => hist.sweeps >= 1)
    /\ sweep.by = "bg" => hist.sweeps >= 1

\* The disk cache has been returned after its one sweep, a call has been made
\* on it, and the background task is in its first sweep.
C14_Witness ==
    /\ bpc = "ready"
    /\ c.variant = "disk"
    /\ hist.bgTasks = 1
    /\ hist.sweeps = 1
    /\ hist.calls # <<>>
    /\ sweep.at = "evict" /\ sweep.by = "bg"

\* The sweep has nothing more to evict.
SweepOver == sweep.at = "evict" /\ TotalSize(sweep.items) <= c.maxSizeBytes
\* The listed files that the sweep has evicted.
Evicted == DOMAIN sweep.listed \ DOMAIN sweep.items

\* C15: when a sweep of the disk cache has run with no file written since its
\* listing, the files left are those it retains and their total size is at
\* or below the ceiling; no evicted file is newer than a retained one; a
\* file is evicted only while the total retained is above the ceiling (none
\* when the directory was within it), so that the last file evicted was
\* needed to reach the bound.
C15_SizeBound ==
    /\ [](SweepOver /\ ~sweep.dirty =>
            /\ ListBlocks = sweep.items
            /\ TotalSize(ListBlocks) <= c.maxSizeBytes
            /\ \A e \in Evicted, r \in DOMAIN sweep.items :
                  sweep.listed[e].mtime <= sweep.listed[r].mtime
            /\ TotalSize(sweep.listed) <= c.maxSizeBytes => Evicted = {}
            /\ Evicted # {} =>
                  \E e \in Evicted :
                      /\ \A o \in Evicted : sweep.listed[o].mtime <= sweep.listed[e].mtime
                      /\ TotalSize(sweep.items) + sweep.listed[e].size > c.maxSizeBytes)
    /\ [][\A b \in BlockIDs :
            (blockDir[b] # NoBlock /\ blockDir'[b] = NoBlock)
               => /\ sweep.at = "evict"
                  /\ TotalSize(sweep.items) > c.maxSizeBytes
                  /\ b \in DOMAIN sweep.items
                  /\ \A o \in DOMAIN sweep.items : sweep.items[b].mtime <= sweep.items[o].mtime]_vars

\* The background task's sweep is over on a directory that calls on the cache
\* had filled beyond the ceiling: it has evicted a file and retains a newer one.
C15_Witness ==
    /\ SweepOver /\ ~sweep.dirty
    /\ sweep.by = "bg"
    /\ hist.calls # <<>>
    /\ TotalSize(sweep.listed) > c.maxSizeBytes
    /\ \E e \in Evicted, r \in DOMAIN sweep.items : sweep.listed[e].mtime < sweep.listed[r].mtime

\* C16 (as stated): writeTempFileAtomic calls os.CreateTemp at most twice,
\* the second time only when the first call has failed with a not-exist
\* error and only after the directory has been created; any other failure of
\* the first call, and a failure of the second, make it return an error and
\* no path; a path it returns is that of a temporary file of the directory,
\* fully written and closed.
C16_RetryAfterDirCreated ==
    \A p \in Procs : pc[p] = "add_retry" => dirExists

\* C16 (amended): writeTempFileAtomic calls os.CreateTemp at most twice, the
\* second time only when the first call has failed with a not-exist error and
\* only after one call of os.MkdirAll, whose error is dropped (the directory
\* is there unless that call has failed, and then the second attempt fails);
\* any other failure of the first call, and a failure of the second, make it
\* return the error "can't create tmp file" and no path, leaving no file and
\* making no further attempt; a path it returns is that of a temporary file
\* of the directory, fully written and closed.
C16_OneShotRetry ==
    /\ [](\A p \in Procs :
            /\ loc[p].creates <= 2 /\ loc[p].mkdirs <= 1
            /\ loc[p].creates = 2 => loc[p].mkdirs = 1
            /\ pc[p] = "add_mkdir" => loc[p].creates = 1 /\ loc[p].mkdirs = 0
            /\ pc[p] = "add_retry" => loc[p].creates = 1 /\ loc[p].mkdirs = 1)
    /\ [][\A p \in Procs :
            /\ (pc[p] = "add_create" /\ pc'[p] # "add_create")
                  => /\ pc'[p] \in {"add_write", "add_mkdir", "idle"}
                     /\ pc'[p] = "add_mkdir" <=> (~dirExists /\ pc'[p] # "idle")
                     /\ pc'[p] = "idle"
                           => ret'[p][1] = "can't create tmp file" /\ files' = files
            /\ (pc[p] = "add_mkdir" /\ pc'[p] # "add_mkdir")
                  => pc'[p] = "add_retry" /\ files' = files
            /\ (pc[p] = "add_retry" /\ pc'[p] # "add_retry")
                  => /\ pc'[p] \in {"add_write", "idle"}
                     /\ pc'[p] = "add_write" => dirExists
                     /\ pc'[p] = "idle"
                           => ret'[p][1] = "can't create tmp file" /\ files' = files
            /\ (pc[p] = "add_close" /\ pc'[p] = "add_rename")
                  => /\ dirExists
                     /\ loc'[p].tmpFile \in Names
                     /\ ~HasSuffix(loc'[p].tmpFile, simpleIndexSuffix)
                     /\ files'[loc'[p].tmpFile].data = arg[p].data]_vars

\* The first os.CreateTemp has failed with a not-exist error, os.MkdirAll has
\* failed too, and the second os.CreateTemp is about to be made in a
\* directory that is not there.
C16_Witness ==
    \E p \in Procs :
        /\ pc[p] = "add_retry"
        /\ ~dirExists
        /\ loc[p].creates = 1
        /\ loc[p].mkdirs = 1

RECURSIVE SumSeq(_)
SumSeq(s) == IF s = <<>> THEN 0 ELSE Head(s) + SumSeq(Tail(s))

\* C17: the sleep before the k-th retry of the retrying open is 10 ms *
\* 2^(k-1) (10, 20, 40, 80, 160, 320, 640, 1280); each sleep comes after a
\* call of mmap.Open and before the next one; there are at most 8 sleeps, and
\* 2550 ms of them in all when every call fails.
C17_BackoffSchedule ==
    \A p \in Procs :
        /\ Len(loc[p].slept) <= 8
        /\ \A k \in 1..Len(loc[p].slept) : loc[p].slept[k] = 10 * 2^(k - 1)
        /\ pc[p] = "open_loop" => Len(loc[p].slept) = loc[p].opens - 1
        /\ pc[p] = "open_retry" => Len(loc[p].slept) = loc[p].opens /\ loc[p].opens >= 1
        /\ SumSeq(loc[p].slept) <= 2550
        /\ Len(loc[p].slept) = 8 => SumSeq(loc[p].slept) = 2550

\* Every call has failed and the open is about to return: the eight sleeps
\* have been made, the last of 1280 ms.
C17_Witness ==
    \E p \in Procs :
        /\ pc[p] = "open_loop"
        /\ loc[p].err # "nil"
        /\ loc[p].slept = <<10, 20, 40, 80, 160, 320, 640, 1280>>

\* C18 (as stated): whatever the interleaving of expireUnused runs and
\* addContentToCache calls, a file <id>.sndx that is removed has, when it is
\* removed, a modification time more than an hour before the current time.
C18_GracePeriod ==
    [][\A id \in IDs :
          (Exists(indexBlobPath(id)) /\ files'[indexBlobPath(id)] = NoFile)
             => now - files[indexBlobPath(id)].mtime > 1 * TicksPerHour]_vars

\* C19 (as stated): once <id>.sndx is there its bytes do not change, whatever
\* the payloads of the callers that race to add it.
C19_NeverReplaced ==
    [][\A id \in IDs :
          (Exists(indexBlobPath(id)) /\ files'[indexBlobPath(id)] # NoFile)
             => files'[indexBlobPath(id)].data = files[indexBlobPath(id)].data]_vars

\* C20: a step of expireUnused changes no file but by removing one whose name
\* ends with .sndx: a temporary file, being written or left behind, of any
\* age, is left as it is.
C20_ExpireFrame ==
    [][\A p \in Procs :
          (pc[p] \in {"exp_list", "exp_loop"} /\ <<pc'[p], loc'[p]>> # <<pc[p], loc[p]>>)
             => /\ dirExists' = dirExists
                /\ \A n \in Names :
                      files'[n] # files[n] => n[2] = ".sndx" /\ files'[n] = NoFile]_vars

\* A run of expireUnused has removed a.sndx and is over, while a temporary
\* file that it has listed, more than an hour old, is still being written.
C20_Witness ==
    \E p, q \in Procs :
        /\ LoopOver(p)
        /\ "a" \in loc[p].visited /\ loc[p].errlog = 0
        /\ ~Exists(indexBlobPath("a"))
        /\ pc[q] = "add_write"
        /\ loc[q].tmpFile \in DOMAIN loc[p].entries
        /\ files[loc[q].tmpFile] # NoFile
        /\ now - files[loc[q].tmpFile].mtime > 1 * TicksPerHour

=============================================================================
